---- MODULE Spec2Model ----
(***************************************************************************)
(* Model of WattBoxClient (src/src/client.ts): one client object, the      *)
(* sockets it creates, its internal correlation emitter `bcc`, the pending *)
(* request/control calls and the timers.                                   *)
(*                                                                         *)
(* A string is a sequence of tokens; a token is one special character      *)
(* ("?", "=", "#", "~", ",", "!", a white-space character) or an           *)
(* indivisible run of ordinary characters ("Model", "OK", "Username:").    *)
(*                                                                         *)
(* The client's fields are gathered in a record S so that the code of a    *)
(* handler, which calls other methods and listeners synchronously, is the  *)
(* composition of operators S -> S.  An action runs one callback of the    *)
(* event loop to completion.                                               *)
(***************************************************************************)
EXTENDS Integers, Sequences, FiniteSets, TLC

MaxSockets == 6      \* socket slots of the model
MaxCalls == 2        \* slots for calls that pass the connected check
MaxN == 1            \* largest finite opts.maxReconnectAttempts tried
SessionSockets == 2  \* sockets created in the behaviours of Spec
CallSockets == 2     \* sockets created in the behaviours of SpecCalls
CallCalls == 1       \* calls that pass the connected check in SpecCalls
BusSockets == 1      \* sockets created in the behaviours of SpecBus
LineSockets == 1     \* sockets created in the behaviours of SpecLines
LineCalls == 2       \* calls that pass the connected check in SpecLines
MaxLines == 2        \* lines in one delivery of SpecLines
BackoffConnects == 1 \* connect() calls of the caller in SpecBackoff
BackoffSockets == 6  \* sockets created in the behaviours of SpecBackoff
TimeoutConnects == 1 \* connect() calls of the caller in SpecTimeout
TimeoutSockets == 2  \* sockets created in the behaviours of SpecTimeout
TimeoutCalls == 2    \* calls that pass the connected check in SpecTimeout
NotifySockets == 1   \* sockets created in the behaviours of SpecNotify
NotifyCalls == 2     \* calls that pass the connected check in SpecNotify
LoginSockets == 2    \* sockets created in the behaviours of SpecLogin
FragSockets == 1     \* sockets created in the behaviours of SpecFragments
FragCalls == 2       \* calls that pass the connected check in SpecFragments
SettleSockets == 1   \* sockets created in the behaviours of SpecSettle
SettleCalls == 2     \* calls that pass the connected check in SpecSettle

Null == 0            \* null socket / timer handle
Undefined == 0 - 1   \* an option left out of WattBoxClientOpts

VARIABLES connected, reconnectAttempts, reconnectTimer, socket, bcc,
          opts, socks, calls, nsock, ncalls, out, crashed, terminal

vars == <<connected, reconnectAttempts, reconnectTimer, socket, bcc,
          opts, socks, calls, nsock, ncalls, out, crashed, terminal>>

----------------------------------------------------------------------------
(* Strings *)

WhiteSpace == {" ", "\n", "\r", "\t"}

RECURSIVE trimStart(_)
trimStart(s) ==
    IF s # <<>> /\ Head(s) \in WhiteSpace THEN trimStart(Tail(s)) ELSE s

RECURSIVE trimEnd(_)
trimEnd(s) ==
    IF s # <<>> /\ s[Len(s)] \in WhiteSpace
    THEN trimEnd(SubSeq(s, 1, Len(s) - 1)) ELSE s

trim(s) == trimEnd(trimStart(s))

RECURSIVE split(_, _)
split(s, sep) ==
    IF \E i \in 1..Len(s) : s[i] = sep
    THEN LET i == CHOOSE k \in 1..Len(s) :
                     s[k] = sep /\ \A j \in 1..(k - 1) : s[j] # sep
         IN <<SubSeq(s, 1, i - 1)>> \o split(SubSeq(s, i + 1, Len(s)), sep)
    ELSE <<s>>

startsWith(s, p) == Len(s) >= Len(p) /\ SubSeq(s, 1, Len(p)) = p

\* mutant: the whole line is taken as the key
keyOf_wholeLine(message) == message

\* message.split('=')[0]
keyOf(message) == split(message, "=")[1]

\* the login strings of handleData
BannerLine == <<"Please", " ", "Login", " ", "to", " ", "Continue">>
UsernamePrompt == <<"Username:">>
PasswordPrompt == <<"Password:">>
LoginOkLine == <<"Successfully", " ", "Logged", " ", "In!">>
LoginBadLine == <<"Invalid", " ", "Login">>
OkLine == <<"OK">>
ErrorLine == <<"#", "Error">>

\* keys of the internal emitter
LoginKey == <<"login">>
OkKey == <<"ok">>
ErrorKey == <<"error">>

\* messages of the public methods used here
Requests == { <<"?", "Model">>, <<"?", "OutletCount">>,
              <<"?", "OutletPowerStatus", "=", "1">>,
              <<"?", "OutletPowerStatus", "=", "2">> }
Controls == { <<"!", "OutletSet", "=", "1", ",", "ON">>,
              <<"!", "OutletSet", "=", "2", ",", "OFF">> }

\* what the device may deliver in one 'data' event, per specification
BusChunks == {
    LoginOkLine \o <<"\n">>,
    <<"?", "Model", "=", "WB-800", "\n">>,
    <<"?", "OutletCount", "=", "12", "\n">>,
    <<"?", "OutletPowerStatus", "=", "1", ",", "1.5", ",", "0.1", ",", "120", "\n">>,
    <<"OK", "\n">>,
    <<"#", "Error", "\n">>,
    <<"~", "OutletStatus", "=", "1", ",", "1", ",", "0", "\n">>,
    <<"?", "OutletCount", "=", "12", "\n", "?", "Model", "=", "WB-800", "\n">>
}

LoginChunks == { LoginOkLine \o <<"\n">>, LoginBadLine \o <<"\n">> }

CallChunks == { LoginOkLine \o <<"\n">>, <<"?", "Model", "=", "WB-800", "\n">>,
                <<"OK", "\n">>, <<"#", "Error", "\n">> }

\* deliveries around the unsolicited '~' lines; the text after '=' of a
\* '~' line is written one character per element, as the expression of
\* handleData reads it
NotifyChunks == {
    LoginOkLine \o <<"\n">>,
    <<"?", "OutletStatus", "=", "1", ",", "1", ",", "0", "\n">>,
    <<"~", "OutletStatus", "=", "1", ",", "1", ",", "0", "\n">>,
    <<"~", "OutletStatus", "=", "1", ",", "2", ",", "0", "\n">>,
    <<"~", "OutletStatus", "=", "x", "\n">>,
    <<"~", "OutletStatus", "\n">>,
    <<"~", "Model", "=", "1", "\n">>
}

\* deliveries of the login dialogue, one line or two lines at a time
PromptChunks == {
    BannerLine \o <<"\n">>,
    UsernamePrompt \o <<"\n">>,
    PasswordPrompt \o <<"\n">>,
    LoginOkLine \o <<"\n">>,
    LoginBadLine \o <<"\n">>,
    BannerLine \o <<"\n">> \o UsernamePrompt \o <<"\n">>,
    UsernamePrompt \o <<"\n">> \o PasswordPrompt \o <<"\n">>,
    LoginBadLine \o <<"\n">> \o UsernamePrompt \o <<"\n">>
}

\* a reply line that reaches the client whole or cut in two deliveries: the
\* first piece ends where the cut is, the second ends with the newline
ReplyLine == <<"?", "Model", "=", "WB", "-", "800">>

ReplyPieces ==
    { SubSeq(ReplyLine, 1, k) : k \in 1..(Len(ReplyLine) - 1) } \cup
    { SubSeq(ReplyLine, k + 1, Len(ReplyLine)) : k \in 1..(Len(ReplyLine) - 1) }

FragmentChunks ==
    { LoginOkLine \o <<"\n">>, ReplyLine \o <<"\n">> } \cup
    { SubSeq(ReplyLine, 1, k) : k \in 1..(Len(ReplyLine) - 1) } \cup
    { SubSeq(ReplyLine, k + 1, Len(ReplyLine)) \o <<"\n">> :
         k \in 1..(Len(ReplyLine) - 1) }

\* the lines the device sends, without their terminating newline
LinePieces == { <<>>, <<"OK", "\r">>, ErrorLine,
                <<"?", "Model", "=", "WB-800">>,
                <<"~", "OutletStatus", "=", "1", ",", "1", ",", "0">>,
                UsernamePrompt, LoginOkLine, LoginBadLine }

\* a delivery made of newline-terminated lines
RECURSIVE joinLines(_)
joinLines(ls) ==
    IF ls = <<>> THEN <<>> ELSE Head(ls) \o <<"\n">> \o joinLines(Tail(ls))

LineChunks ==
    { joinLines(ls) : ls \in UNION { [1..n -> LinePieces] : n \in 1..MaxLines } }

----------------------------------------------------------------------------
(* Observable effects of the callback that ran last *)

Eff(ev, id, txt) == [ev |-> ev, id |-> id, txt |-> txt]

emit(S, ev, txt) == [S EXCEPT !.out = Append(@, Eff(ev, Null, txt))]

----------------------------------------------------------------------------
(* Sockets (net.Socket) *)

\* st: state of the transport; ended: end() was called; promise, err: the
\* promise returned by the connect() call that created the socket; timer,
\* delay: the reconnect timer armed by its 'close' handler; opened: its
\* 'connect' event has been emitted; authed: the device has accepted the
\* login on this transport
NoSock == [st |-> "none", ended |-> FALSE, promise |-> "none", err |-> <<>>,
           timer |-> "none", delay |-> 0, opened |-> FALSE, authed |-> FALSE]

Live(sk) == sk.st \in {"connecting", "open"}

\* socket.write(line + "\n") on this.socket
write(S, line) ==
    [S EXCEPT !.out = Append(@, Eff("write", S.socket, line \o <<"\n">>))]

\* socket.destroy(): no further events but 'close'
destroy(S, s) ==
    IF s # Null /\ Live(S.socks[s])
    THEN [S EXCEPT !.socks[s].st = "destroyed"]
    ELSE S

\* socket.end(): half-close, the socket stays readable until the peer closes
end(S, s) == [S EXCEPT !.socks[s].ended = TRUE]

\* resolve / reject of the promise returned by the connect() call that
\* created socket s; a settled promise ignores further calls
resolveConnect(S, s) ==
    IF S.socks[s].promise = "pending"
    THEN [S EXCEPT !.socks[s].promise = "resolved",
                   !.out = Append(@, Eff("connectResolved", s, <<>>))]
    ELSE S

rejectConnect(S, s, err) ==
    IF S.socks[s].promise = "pending"
    THEN [S EXCEPT !.socks[s].promise = "rejected", !.socks[s].err = err,
                   !.out = Append(@, Eff("connectRejected", s, err))]
    ELSE S

----------------------------------------------------------------------------
(* Calls: the promises of handleRequestMessage / handleControlMessage *)

NoCall == [kind |-> "none", msg |-> <<>>, st |-> "none", val |-> <<>>,
           timer |-> "none", sock |-> Null]

resolve(S, c, data) ==
    IF S.calls[c].st = "pending"
    THEN [S EXCEPT !.calls[c].st = "resolved", !.calls[c].val = data,
                   !.out = Append(@, Eff("resolved", c, data))]
    ELSE S

reject(S, c, err) ==
    IF S.calls[c].st = "pending"
    THEN [S EXCEPT !.calls[c].st = "rejected", !.calls[c].val = err,
                   !.out = Append(@, Eff("rejected", c, err))]
    ELSE S

clearTimeout(S, c) ==
    IF S.calls[c].timer = "armed"
    THEN [S EXCEPT !.calls[c].timer = "cleared"] ELSE S

----------------------------------------------------------------------------
(* The internal emitter bcc: listeners in registration order *)

Listener(key, fn, id) == [key |-> key, fn |-> fn, id |-> id]

once(S, key, fn, id) == [S EXCEPT !.bcc = Append(@, Listener(key, fn, id))]

removeListener(S, key, fn, id) ==
    [S EXCEPT !.bcc = SelectSeq(@, LAMBDA l : l # Listener(key, fn, id))]

removeAllListeners(S, key) ==
    [S EXCEPT !.bcc = SelectSeq(@, LAMBDA l : l.key # key)]

\* mutant: a reply is handed to every waiting query, whatever its key
listeners_anyRequest(S, key) ==
    SelectSeq(S.bcc, LAMBDA l : l.key = key
                                \/ (startsWith(key, <<"?">>) /\ l.fn = "onRequest"))

listeners(S, key) == SelectSeq(S.bcc, LAMBDA l : l.key = key)

----------------------------------------------------------------------------
(* connect / disconnect and the listeners of bcc *)

clearReconnectTimer(S, t) ==
    IF S.socks[t].timer = "armed"
    THEN [S EXCEPT !.socks[t].timer = "cleared"] ELSE S

\* mutant: the socket is ended but the handle is kept
disconnect_keepSocket(S) ==
    LET S1 == IF S.reconnectTimer # Null
              THEN [clearReconnectTimer(S, S.reconnectTimer)
                        EXCEPT !.reconnectTimer = Null]
              ELSE S
        S2 == IF S1.socket # Null THEN end(S1, S1.socket) ELSE S1
    IN [S2 EXCEPT !.connected = FALSE]

disconnect(S) ==
    LET S1 == IF S.reconnectTimer # Null
              THEN [clearReconnectTimer(S, S.reconnectTimer)
                        EXCEPT !.reconnectTimer = Null]
              ELSE S
        S2 == IF S1.socket # Null
              THEN [end(S1, S1.socket) EXCEPT !.socket = Null]
              ELSE S1
    IN [S2 EXCEPT !.connected = FALSE]

InvalidLogin == <<"WattBoxError", "Invalid Login">>
NotConnected == <<"WattBoxError", "Not Connected">>
Timeout == <<"WattBoxError", "Timeout">>
RequestError == <<"WattBoxError", "Request Error">>
ControlError == <<"WattBoxError", "Control Error">>
TransportError == <<"Error", "ECONNRESET">>

\* the 'login' listener of the connect() call that created socket s
onLogin(S, s, success) ==
    IF success
    THEN resolveConnect(emit(S, "ready", <<>>), s)
    ELSE rejectConnect(
             disconnect([S EXCEPT !.reconnectAttempts = 0 - 1,
                                  !.terminal = "auth"]),
             s, InvalidLogin)

\* mutant: the call is resolved with the key instead of the whole line
onRequest_keyOnly(S, c, data) ==
    resolve(clearTimeout(removeListener(S, ErrorKey, "onError", c), c), c,
            keyOf(data))

onRequest(S, c, data) ==
    resolve(clearTimeout(removeListener(S, ErrorKey, "onError", c), c), c, data)

\* mutant: the acknowledgement leaves the timeout timer of the call running
onOk_keepTimer(S, c) ==
    resolve(removeListener(S, ErrorKey, "onError", c), c, <<>>)

onOk(S, c) ==
    resolve(clearTimeout(removeListener(S, ErrorKey, "onError", c), c), c, <<>>)

\* mutant: the error line leaves the reply subscription of the call
onError_keepReply(S, c) ==
    reject(clearTimeout(S, c), c,
           IF S.calls[c].kind = "request" THEN RequestError ELSE ControlError)

\* mutant: the error line is for control commands only
onError_controlOnly(S, c) ==
    IF S.calls[c].kind = "request"
    THEN once(S, ErrorKey, "onError", c)
    ELSE reject(clearTimeout(removeListener(S, OkKey, "onOk", c), c),
                c, ControlError)

\* mutant: an error line also tears the transport down
onError_destroy(S, c) ==
    destroy(IF S.calls[c].kind = "request"
            THEN reject(clearTimeout(
                            removeListener(S, keyOf(S.calls[c].msg), "onRequest", c), c),
                        c, RequestError)
            ELSE reject(clearTimeout(removeListener(S, OkKey, "onOk", c), c),
                        c, ControlError),
            S.socket)

onError(S, c) ==
    IF S.calls[c].kind = "request"
    THEN reject(clearTimeout(
                    removeListener(S, keyOf(S.calls[c].msg), "onRequest", c), c),
                c, RequestError)
    ELSE reject(clearTimeout(removeListener(S, OkKey, "onOk", c), c),
                c, ControlError)

invoke(S, l, arg) ==
    CASE l.fn = "onLogin" -> onLogin(S, l.id, arg)
      [] l.fn = "onRequest" -> onRequest(S, l.id, arg)
      [] l.fn = "onOk" -> onOk(S, l.id)
      [] l.fn = "onError" -> onError(S, l.id)

\* EventEmitter.emit: the listeners registered under key when emit starts
\* are called in registration order, each `once` wrapper removing itself
\* first; emit('error') without a listener throws
RECURSIVE callEach(_, _, _)
callEach(S, ls, arg) ==
    IF ls = <<>> THEN S
    ELSE LET l == Head(ls)
         IN callEach(invoke(removeListener(S, l.key, l.fn, l.id), l, arg),
                     Tail(ls), arg)

bccEmit(S, key, arg) ==
    IF key = ErrorKey /\ listeners(S, key) = <<>>
    THEN [S EXCEPT !.crashed = TRUE,
                   !.out = Append(@, Eff("throw", Null, <<"ERR_UNHANDLED_ERROR">>))]
    ELSE callEach(S, listeners(S, key), arg)

publish(S, key, flag) == [S EXCEPT !.out = Append(@, Eff("publish", flag, key))]

connect(S) ==
    LET s == S.nsock + 1
        S1 == [S EXCEPT !.nsock = s, !.socket = s,
                        !.socks[s] = [NoSock EXCEPT !.st = "connecting",
                                                    !.promise = "pending"]]
    IN once(removeAllListeners(S1, LoginKey), LoginKey, "onLogin", s)

----------------------------------------------------------------------------
(* handleData *)

IsBit(t) == t \in {"0", "1"}

RECURSIVE bitsEnd(_, _)
bitsEnd(s, i) ==
    IF i + 2 <= Len(s) /\ s[i + 1] = "," /\ IsBit(s[i + 2])
    THEN bitsEnd(s, i + 2) ELSE i

\* /~OutletStatus=((?:[01],)*[01])/.exec(message): start positions of a match
outletStatusStarts(message) ==
    { i \in 1..Len(message) :
        /\ i + 3 <= Len(message)
        /\ SubSeq(message, i, i + 2) = <<"~", "OutletStatus", "=">>
        /\ IsBit(message[i + 3]) }

\* match[1].split(',').map(x => Boolean(parseInt(x)))
outletStatusPayload(message) ==
    LET i == CHOOSE k \in outletStatusStarts(message) :
                 \A j \in outletStatusStarts(message) : k <= j
        cap == SubSeq(message, i + 3, bitsEnd(message, i + 3))
        bits == split(cap, ",")
    IN [k \in 1..Len(bits) |-> IF bits[k] = <<"1">> THEN "true" ELSE "false"]

\* mutant: the banner is answered with the username as well
handleLine_answerBanner(S, message) ==
    IF message = BannerLine \/ message = UsernamePrompt
    THEN IF S.socket # Null THEN write(S, <<S.opts.username>>) ELSE S
    ELSE IF message = PasswordPrompt
    THEN IF S.socket # Null THEN write(S, <<S.opts.password>>) ELSE S
    ELSE IF message = LoginOkLine
    THEN bccEmit(publish(S, LoginKey, 1), LoginKey, TRUE)
    ELSE IF message = LoginBadLine
    THEN bccEmit(publish(S, LoginKey, 0), LoginKey, FALSE)
    ELSE emit(S, "debugmsg", <<"[<---] ">> \o message)

handleLine(S, message) ==
    IF message = BannerLine THEN S
    ELSE IF message = UsernamePrompt
    THEN IF S.socket # Null THEN write(S, <<S.opts.username>>) ELSE S
    ELSE IF message = PasswordPrompt
    THEN IF S.socket # Null THEN write(S, <<S.opts.password>>) ELSE S
    ELSE IF message = LoginOkLine
    THEN bccEmit(publish(S, LoginKey, 1), LoginKey, TRUE)
    ELSE IF message = LoginBadLine
    THEN bccEmit(publish(S, LoginKey, 0), LoginKey, FALSE)
    ELSE LET S1 == emit(S, "debugmsg", <<"[<---] ">> \o message)
         IN IF startsWith(message, <<"?">>)
            THEN bccEmit(publish(S1, keyOf(message), Null), keyOf(message), message)
            ELSE IF message = OkLine
            THEN bccEmit(publish(S1, OkKey, Null), OkKey, <<>>)
            ELSE IF message = ErrorLine
            THEN bccEmit(publish(S1, ErrorKey, Null), ErrorKey, <<>>)
            ELSE IF startsWith(message, <<"~", "OutletStatus">>)
                    /\ outletStatusStarts(message) # {}
            THEN emit(S1, "outletStatus", outletStatusPayload(message))
            ELSE S1

\* the lines handleData finds in one delivery
linesOf(data) ==
    LET parts == split(trim(data), "\n")
    IN [i \in 1..Len(parts) |-> trim(parts[i])]

hasLine(data, line) == \E i \in 1..Len(linesOf(data)) : linesOf(data)[i] = line

\* an exception thrown by a line ends the whole 'data' callback
RECURSIVE handleData(_, _)
RECURSIVE forEach(_, _)
\* mutant: only the first line of a delivery is handled
forEach_firstOnly(S, msgs) ==
    IF msgs = <<>> \/ S.crashed THEN S ELSE handleData(S, Head(msgs))

handleData(S, data) ==
    LET message == trim(data)
    IN IF Len(split(message, "\n")) > 1
       THEN forEach(S, split(message, "\n"))
       ELSE handleLine(S, message)

forEach(S, msgs) ==
    IF msgs = <<>> \/ S.crashed THEN S
    ELSE forEach(handleData(S, Head(msgs)), Tail(msgs))

----------------------------------------------------------------------------
(* handleRequestMessage / handleControlMessage *)

newCall(S, kind, message) ==
    [S EXCEPT !.ncalls = S.ncalls + 1,
              !.calls[S.ncalls + 1] =
                  [kind |-> kind, msg |-> message, st |-> "pending",
                   val |-> <<>>, timer |-> "armed", sock |-> S.socket]]

send(S, message) ==
    IF S.socket # Null
    THEN write(emit(S, "debugmsg", <<"[--->] ">> \o message), message)
    ELSE S

\* mutant: the message is written before connected is tested
handleRequestMessage_sendFirst(S, message) ==
    IF ~S.connected
    THEN [send(S, message) EXCEPT
             !.out = Append(@, Eff("rejected", Null, NotConnected))]
    ELSE LET c == S.ncalls + 1
         IN once(once(newCall(send(S, message), "request", message),
                      keyOf(message), "onRequest", c),
                 ErrorKey, "onError", c)

handleRequestMessage(S, message) ==
    IF ~S.connected
    THEN [S EXCEPT !.out = Append(@, Eff("rejected", Null, NotConnected))]
    ELSE LET c == S.ncalls + 1
         IN once(once(newCall(send(S, message), "request", message),
                      keyOf(message), "onRequest", c),
                 ErrorKey, "onError", c)

handleControlMessage(S, message) ==
    IF ~S.connected
    THEN [S EXCEPT !.out = Append(@, Eff("rejected", Null, NotConnected))]
    ELSE LET c == S.ncalls + 1
         IN once(once(newCall(send(S, message), "control", message),
                      OkKey, "onOk", c),
                 ErrorKey, "onError", c)

\* mutant: the timeout ends the socket instead of destroying it
onTimeout_end(S, c) ==
    reject(IF S.socket # Null
           THEN end([S EXCEPT !.calls[c].timer = "fired"], S.socket)
           ELSE [S EXCEPT !.calls[c].timer = "fired"],
           c, Timeout)

\* mutant: the timeout gives up every pending call
RECURSIVE rejectAll(_, _)
rejectAll(S, c) ==
    IF c = 0 THEN S ELSE rejectAll(reject(S, c, Timeout), c - 1)

onTimeout_rejectAll(S, c) ==
    rejectAll(destroy([S EXCEPT !.calls[c].timer = "fired"], S.socket), MaxCalls)

\* mutant: the timeout destroys the transport and leaves the promise alone
onTimeout_destroyOnly(S, c) ==
    destroy([S EXCEPT !.calls[c].timer = "fired"], S.socket)

\* the setTimeout callback of call c
onTimeout(S, c) ==
    reject(destroy([S EXCEPT !.calls[c].timer = "fired"], S.socket), c, Timeout)

----------------------------------------------------------------------------
(* Socket event handlers registered by connect() *)

onSocketConnect(S) ==
    [emit(S, "debugsock", <<"connect">>)
        EXCEPT !.connected = TRUE, !.reconnectAttempts = 0]

onSocketData(S, data) ==
    handleData(emit(S, "debugsock", <<"data">> \o data), data)

onSocketTimeout(S) ==
    IF ~S.connected
    THEN destroy(emit(S, "debugsock", <<"timeout">>), S.socket)
    ELSE S

Min(a, b) == IF a <= b THEN a ELSE b

RECURSIVE Pow2(_)
Pow2(n) == IF n = 0 THEN 1 ELSE 2 * Pow2(n - 1)

\* this.reconnectAttempts >= (opts.maxReconnectAttempts ?? Infinity)
capReached(S) ==
    /\ S.opts.maxReconnectAttempts # Undefined
    /\ S.reconnectAttempts >= S.opts.maxReconnectAttempts

reconnectBackoff(n) == Min(32, Pow2(n)) * 1000

\* mutant: the close is recorded but no reconnect is scheduled
onSocketClose_noTimer(S, s) ==
    [emit(S, "debugsock", <<"close">>) EXCEPT !.connected = FALSE]

\* the 'close' handler of socket s; the timer it arms is named after s
\* mutant: the close handler does not look at maxReconnectAttempts
onSocketClose_noCap(S, s) ==
    LET S1 == [emit(S, "debugsock", <<"close">>) EXCEPT !.connected = FALSE]
        n == S1.reconnectAttempts + 1
    IN IF S1.reconnectAttempts >= 0
       THEN [S1 EXCEPT !.reconnectAttempts = n,
                       !.out = Append(@, Eff("debugsock", n, <<"reconnect">>)),
                       !.socks[s].timer = "armed",
                       !.socks[s].delay = reconnectBackoff(n),
                       !.reconnectTimer = s]
       ELSE S1

onSocketClose(S, s) ==
    LET S1 == [emit(S, "debugsock", <<"close">>) EXCEPT !.connected = FALSE]
        n == S1.reconnectAttempts + 1
    IN IF S1.reconnectAttempts >= 0 /\ ~capReached(S1)
       THEN [S1 EXCEPT !.reconnectAttempts = n,
                       !.out = Append(@, Eff("debugsock", n, <<"reconnect">>)),
                       !.socks[s].timer = "armed",
                       !.socks[s].delay = reconnectBackoff(n),
                       !.reconnectTimer = s]
       ELSE S1

onSocketError(S, s) ==
    LET S1 == emit(S, "debugsock", <<"error">>)
    IN IF ~S1.connected THEN rejectConnect(S1, s, TransportError) ELSE S1

\* the reconnect timer armed by the close of socket t: this.connect().catch()
onReconnectTimer(S, t) == connect([S EXCEPT !.socks[t].timer = "fired"])

----------------------------------------------------------------------------
(* State machine *)

Cur == [connected |-> connected, reconnectAttempts |-> reconnectAttempts,
        reconnectTimer |-> reconnectTimer, socket |-> socket, bcc |-> bcc,
        opts |-> opts, socks |-> socks, calls |-> calls, nsock |-> nsock,
        ncalls |-> ncalls, out |-> <<>>, crashed |-> crashed,
        terminal |-> terminal]

\* the callback that runs in this step, recorded first in out
Run(name, id, txt) == [Cur EXCEPT !.out = <<Eff(name, id, txt)>>]

Set(S) ==
    /\ connected' = S.connected
    /\ reconnectAttempts' = S.reconnectAttempts
    /\ reconnectTimer' = S.reconnectTimer
    /\ socket' = S.socket
    /\ bcc' = S.bcc
    /\ opts' = S.opts
    /\ socks' = S.socks
    /\ calls' = S.calls
    /\ nsock' = S.nsock
    /\ ncalls' = S.ncalls
    /\ out' = S.out
    /\ crashed' = S.crashed
    /\ terminal' = S.terminal

Init ==
    /\ connected = FALSE
    /\ reconnectAttempts = 0
    /\ reconnectTimer = Null
    /\ socket = Null
    /\ bcc = <<>>
    /\ opts \in [maxReconnectAttempts : {Undefined} \cup 0..MaxN,
                 username : {"admin"}, password : {"secret"}]
    /\ socks = [s \in 1..MaxSockets |-> NoSock]
    /\ calls = [c \in 1..MaxCalls |-> NoCall]
    /\ nsock = 0
    /\ ncalls = 0
    /\ out = <<>>
    /\ crashed = FALSE
    /\ terminal = "none"

\* a client constructed without maxReconnectAttempts
InitDefault == Init /\ opts.maxReconnectAttempts = Undefined

\* the caller calls connect()
CallConnect(maxSockets) ==
    /\ ~crashed /\ nsock < maxSockets
    /\ Set([connect(Run("connect()", Null, <<>>)) EXCEPT !.terminal = "none"])

\* the caller calls disconnect()
CallDisconnect ==
    /\ ~crashed
    /\ Set([disconnect(Run("disconnect()", Null, <<>>))
               EXCEPT !.terminal = "disconnect"])

\* the caller calls one of the get... methods
CallRequest(messages, maxCalls) ==
    /\ ~crashed
    /\ \E m \in messages :
          /\ connected => ncalls < maxCalls
          /\ Set(handleRequestMessage(Run("request()", Null, m), m))

\* the caller calls execOutletSet
CallControl(messages, maxCalls) ==
    /\ ~crashed
    /\ \E m \in messages :
          /\ connected => ncalls < maxCalls
          /\ Set(handleControlMessage(Run("control()", Null, m), m))

SocketConnect ==
    /\ ~crashed
    /\ \E s \in 1..MaxSockets :
          /\ socks[s].st = "connecting"
          /\ Set(onSocketConnect(
                 [Run("'connect'", s, <<>>) EXCEPT !.socks[s].st = "open",
                                                   !.socks[s].opened = TRUE]))

SocketData(chunks) ==
    /\ ~crashed
    /\ \E s \in 1..MaxSockets, data \in chunks :
          /\ socks[s].st = "open"
          /\ Set(onSocketData(
                 [Run("'data'", s, data)
                     EXCEPT !.socks[s].authed = @ \/ hasLine(data, LoginOkLine)],
                 data))

SocketTimeout ==
    /\ ~crashed
    /\ \E s \in 1..MaxSockets :
          /\ Live(socks[s])
          /\ Set(onSocketTimeout(Run("'timeout'", s, <<>>)))

\* a transport failure: 'error' is emitted and the socket is destroyed,
\* its 'close' follows in a later callback
SocketError ==
    /\ ~crashed
    /\ \E s \in 1..MaxSockets :
          /\ Live(socks[s])
          /\ Set(onSocketError(
                 [Run("'error'", s, <<>>) EXCEPT !.socks[s].st = "destroyed"], s))

\* 'close': after destroy(), or when the peer closes an open socket
SocketCloseOf(s) ==
    /\ ~crashed
    /\ socks[s].st \in {"open", "destroyed"}
    /\ Set(onSocketClose(
           [Run("'close'", s, <<>>) EXCEPT !.socks[s].st = "closed"], s))

SocketClose == \E s \in 1..MaxSockets : SocketCloseOf(s)

\* the reconnect timer armed by the close of socket t fires
ReconnectTimerOf(t, maxSockets) ==
    /\ ~crashed /\ nsock < maxSockets
    /\ socks[t].timer = "armed"
    /\ Set(onReconnectTimer(Run("reconnectTimer", t, <<>>), t))

ReconnectTimerFires(maxSockets) ==
    \E t \in 1..MaxSockets : ReconnectTimerOf(t, maxSockets)

\* the timeout timer of call c fires
RequestTimerOf(c) ==
    /\ ~crashed
    /\ calls[c].timer = "armed"
    /\ Set(onTimeout(Run("onTimeout", c, <<>>), c))

RequestTimerFires == \E c \in 1..MaxCalls : RequestTimerOf(c)

\* Session: the whole life cycle of the connection, with the login lines
Next ==
    \/ CallConnect(SessionSockets)
    \/ CallDisconnect
    \/ SocketConnect
    \/ SocketData(LoginChunks)
    \/ SocketTimeout
    \/ SocketError
    \/ SocketClose
    \/ ReconnectTimerFires(SessionSockets)

Spec == Init /\ [][Next]_vars

\* the same behaviours, where an armed timer that is not cleared fires
SpecLive ==
    /\ Init /\ [][Next]_vars
    /\ \A t \in 1..MaxSockets : WF_vars(ReconnectTimerOf(t, SessionSockets))

\* Calls issued in every phase of a connection
NextCalls ==
    \/ CallConnect(CallSockets)
    \/ CallDisconnect
    \/ CallRequest({<<"?", "Model">>}, CallCalls)
    \/ CallControl({<<"!", "OutletSet", "=", "1", ",", "ON">>}, CallCalls)
    \/ SocketConnect
    \/ SocketData(CallChunks)
    \/ SocketTimeout
    \/ SocketError
    \/ SocketClose
    \/ ReconnectTimerFires(CallSockets)
    \/ RequestTimerFires

SpecCalls == InitDefault /\ [][NextCalls]_vars

\* Bus: several calls pending on one connection
NextBus ==
    \/ CallConnect(BusSockets)
    \/ CallRequest(Requests, MaxCalls)
    \/ CallControl(Controls, MaxCalls)
    \/ SocketConnect
    \/ SocketData(BusChunks)
    \/ RequestTimerFires

SpecBus == InitDefault /\ [][NextBus]_vars

\* Lines: deliveries of one or several lines on one connection
NextLines ==
    \/ CallConnect(LineSockets)
    \/ CallRequest({<<"?", "Model">>}, LineCalls)
    \/ CallControl({<<"!", "OutletSet", "=", "1", ",", "ON">>}, LineCalls)
    \/ SocketConnect
    \/ SocketData(LineChunks)

SpecLines == InitDefault /\ [][NextLines]_vars

\* Backoff: one connect() of the caller, then the transport is lost again
\* and again and the client reconnects by itself
NextBackoff ==
    \/ CallConnect(BackoffConnects)
    \/ SocketConnect
    \/ SocketData({LoginOkLine \o <<"\n">>})
    \/ SocketTimeout
    \/ SocketError
    \/ SocketClose
    \/ ReconnectTimerFires(BackoffSockets)

SpecBackoff == Init /\ [][NextBackoff]_vars

\* Timeout: calls on a logged-in connection whose replies may never come;
\* a destroyed socket emits its 'close'
NextTimeout ==
    \/ CallConnect(TimeoutConnects)
    \/ CallRequest({<<"?", "Model">>}, TimeoutCalls)
    \/ CallControl({<<"!", "OutletSet", "=", "1", ",", "ON">>}, TimeoutCalls)
    \/ SocketConnect
    \/ SocketData({LoginOkLine \o <<"\n">>, <<"?", "Model", "=", "WB-800", "\n">>})
    \/ SocketClose
    \/ ReconnectTimerFires(TimeoutSockets)
    \/ RequestTimerFires

SpecTimeout ==
    /\ Init /\ [][NextTimeout]_vars
    /\ \A s \in 1..MaxSockets :
          WF_vars(socks[s].st = "destroyed" /\ SocketCloseOf(s))

\* Notify: unsolicited lines arriving while calls are pending
NextNotify ==
    \/ CallConnect(NotifySockets)
    \/ CallRequest({<<"?", "OutletStatus">>, <<"?", "Model">>}, NotifyCalls)
    \/ CallControl({<<"!", "OutletSet", "=", "1", ",", "ON">>}, NotifyCalls)
    \/ SocketConnect
    \/ SocketData(NotifyChunks)
    \/ RequestTimerFires

SpecNotify == InitDefault /\ [][NextNotify]_vars

\* Login: the login dialogue on up to two transports, with disconnect()
NextLogin ==
    \/ CallConnect(LoginSockets)
    \/ CallDisconnect
    \/ SocketConnect
    \/ SocketData(PromptChunks)

SpecLogin == InitDefault /\ [][NextLogin]_vars

\* Fragments: a reply arriving whole or in two deliveries
NextFragments ==
    \/ CallConnect(FragSockets)
    \/ CallRequest({<<"?", "Model">>, <<"?", "OutletCount">>}, FragCalls)
    \/ SocketConnect
    \/ SocketData(FragmentChunks)
    \/ RequestTimerFires

SpecFragments == InitDefault /\ [][NextFragments]_vars

\* Settle: calls pending while the device is silent, the transport closes
\* or the caller disconnects; an armed timeout timer fires in the end
NextSettle ==
    \/ CallConnect(SettleSockets)
    \/ CallDisconnect
    \/ CallRequest({<<"?", "Model">>}, SettleCalls)
    \/ CallControl({<<"!", "OutletSet", "=", "1", ",", "ON">>}, SettleCalls)
    \/ SocketConnect
    \/ SocketData({LoginOkLine \o <<"\n">>, <<"?", "Model", "=", "WB-800", "\n">>,
                   <<"#", "Error", "\n">>})
    \/ SocketClose
    \/ RequestTimerFires

SpecSettle ==
    /\ InitDefault /\ [][NextSettle]_vars
    /\ \A c \in 1..MaxCalls : WF_vars(RequestTimerOf(c))

\* Silent: the environment of SpecBackoff with the timers running: an idle
\* socket emits 'timeout', a destroyed socket emits 'close', an armed
\* reconnect timer fires; the device is free never to send anything
SpecSilent ==
    /\ Init /\ [][NextBackoff]_vars
    /\ WF_vars(SocketTimeout)
    /\ \A s \in 1..MaxSockets :
          WF_vars(socks[s].st = "destroyed" /\ SocketCloseOf(s))
    /\ \A t \in 1..MaxSockets : WF_vars(ReconnectTimerOf(t, BackoffSockets))

TypeOK ==
    /\ connected \in BOOLEAN
    /\ reconnectAttempts \in (0 - 1)..MaxSockets
    /\ reconnectTimer \in 0..MaxSockets
    /\ socket \in 0..MaxSockets
    /\ nsock \in 0..MaxSockets
    /\ ncalls \in 0..MaxCalls

----------------------------------------------------------------------------
(* Vocabulary of the properties *)

Sockets == 1..MaxSockets
CallIds == 1..MaxCalls

\* the callback that produced the current state
Ran(name) == out # <<>> /\ out[1].ev = name

\* no reconnect timer is armed and no socket is created in the step
NoReconnectStep ==
    /\ nsock' = nsock
    /\ \A s \in Sockets : socks'[s].timer = "armed" => socks[s].timer = "armed"

\* the session phase Ready: the socket handle refers to an open transport on
\* which the device has accepted the login
Ready == socket # Null /\ socks[socket].st = "open" /\ socks[socket].authed

----------------------------------------------------------------------------
(* C1: after disconnect(), as long as the caller does not call connect()    *)
(* again, no reconnect timer is armed and no new transport is opened.       *)
(* The code violates it: disconnect() leaves reconnectAttempts >= 0.        *)
C1_NoReconnectAfterDisconnect ==
    [][(terminal = "disconnect" /\ terminal' = "disconnect") => NoReconnectStep]_vars

(* C2: when the device sends 'Successfully Logged In!' on the transport of  *)
(* a connect() call, that call's promise is resolved and reconnectAttempts  *)
(* is 0 in the state right after.  Violated by the code.                    *)
C2_LoginResolvesWithZeroAttempts ==
    \A s \in Sockets :
        (Ran("'data'") /\ out[1].id = s /\ hasLine(out[1].txt, LoginOkLine))
            => (socks[s].promise = "resolved" /\ reconnectAttempts = 0)

(* C3: when the device sends 'Invalid Login' on the transport of a          *)
(* connect() call that awaits the login result, that call is rejected with  *)
(* 'Invalid Login' and the transport is ended; from then on (until the      *)
(* caller connects again) no reconnect timer is armed and no automatic      *)
(* connect() runs.  Violated by the code.                                   *)
C3_InvalidLoginIsTerminal ==
    [][/\ \A s \in Sockets :
            (/\ socks[s].promise = "pending"
             /\ out'[1] = Eff("'data'", s, LoginBadLine \o <<"\n">>))
                => (/\ socks'[s].promise = "rejected"
                    /\ socks'[s].err = InvalidLogin
                    /\ socks'[s].ended)
       /\ (terminal = "auth" /\ terminal' = "auth") => NoReconnectStep]_vars

----------------------------------------------------------------------------
\* the delivery of the step that produced the current state
Delivered == out[1].txt
SingleLine(data) == Len(linesOf(data)) = 1

\* calls settled by the callback that produced the current state
SettledNow == { i \in 1..Len(out) : out[i].ev \in {"resolved", "rejected"} }

Registered(c, key, fn) == \E i \in 1..Len(bcc) : bcc[i] = Listener(key, fn, c)

(* C4: a pending query is resolved only by a reply line carrying its own    *)
(* key, and a delivery that holds no line with its key and no '#Error'      *)
(* leaves it pending, with its two subscriptions and its timer.             *)
C4_DistinctKeysDoNotCross ==
    [][\A c \in CallIds :
         (calls[c].kind = "request" /\ calls[c].st = "pending") =>
            /\ calls'[c].st = "resolved" =>
                  /\ out'[1].ev = "'data'"
                  /\ hasLine(out'[1].txt, calls'[c].val)
                  /\ keyOf(calls'[c].val) = keyOf(calls[c].msg)
            /\ (/\ out'[1].ev = "'data'"
                /\ ~hasLine(out'[1].txt, ErrorLine)
                /\ \A i \in 1..Len(linesOf(out'[1].txt)) :
                       keyOf(linesOf(out'[1].txt)[i]) # keyOf(calls[c].msg))
                  => (/\ calls'[c] = calls[c]
                      /\ Registered(c, keyOf(calls[c].msg), "onRequest")'
                      /\ Registered(c, ErrorKey, "onError")')]_vars

\* the reply for the key issued second has arrived first: the first call is
\* still pending, the second is resolved with its own line
C4_Witness ==
    /\ Ran("'data'")
    /\ calls[1].kind = "request" /\ calls[1].st = "pending"
    /\ calls[2].kind = "request" /\ calls[2].st = "resolved"
    /\ keyOf(calls[1].msg) # keyOf(calls[2].msg)
    /\ calls[2].val = trim(Delivered)

(* C5: one '?Name=...' line or one 'OK' line settles at most one waiting    *)
(* call.  Violated by the code: every listener under the key is called.     *)
C5_OneReplyOneCall ==
    (/\ Ran("'data'") /\ SingleLine(Delivered)
     /\ (startsWith(trim(Delivered), <<"?">>) \/ trim(Delivered) = OkLine))
        => Cardinality(SettledNow) <= 1

(* C6: a pending query '?Name' or '?Name=arg' is resolved by a line whose   *)
(* text before the first '=' is '?Name', with exactly the trimmed line as   *)
(* its value (the first such line of the delivery, no '#Error' before it).  *)
C6_ResolvesWithFullLine ==
    [][\A c \in CallIds :
         (/\ calls[c].kind = "request" /\ calls[c].st = "pending"
          /\ out'[1].ev = "'data'"
          /\ ~hasLine(out'[1].txt, ErrorLine)) =>
            \A i \in 1..Len(linesOf(out'[1].txt)) :
               (/\ keyOf(linesOf(out'[1].txt)[i]) = keyOf(calls[c].msg)
                /\ \A j \in 1..(i - 1) :
                      keyOf(linesOf(out'[1].txt)[j]) # keyOf(calls[c].msg))
                  => (/\ calls'[c].st = "resolved"
                      /\ calls'[c].val = linesOf(out'[1].txt)[i])]_vars

\* '?OutletPowerStatus=1' resolved with the whole reply line
C6_Witness ==
    \E c \in CallIds :
        /\ Ran("'data'") /\ SingleLine(Delivered)
        /\ calls[c].msg = <<"?", "OutletPowerStatus", "=", "1">>
        /\ calls[c].st = "resolved"
        /\ calls[c].val = trim(Delivered)
        /\ calls[c].val # Delivered
        /\ Len(calls[c].val) > Len(calls[c].msg)

C8_NotReadyRejects ==
    ((Ran("request()") \/ Ran("control()")) /\ ~Ready)
        => out = <<out[1], Eff("rejected", Null, NotConnected)>>

(* C9: a call that fails with 'Not Connected' writes nothing, registers no  *)
(* subscription, arms no timer and leaves connected, socket,                *)
(* reconnectAttempts and reconnectTimer unchanged.                          *)
RejectedNotConnected(o) ==
    \E i \in 1..Len(o) : o[i] = Eff("rejected", Null, NotConnected)

C9_NotConnectedHasNoEffect ==
    [][RejectedNotConnected(out') =>
          /\ Len(out') = 2
          /\ \A i \in 1..Len(out') : out'[i].ev # "write"
          /\ bcc' = bcc /\ calls' = calls /\ ncalls' = ncalls
          /\ socks' = socks /\ nsock' = nsock
          /\ connected' = connected /\ socket' = socket
          /\ reconnectAttempts' = reconnectAttempts
          /\ reconnectTimer' = reconnectTimer]_vars

\* rejected while a socket exists (still connecting): a write was possible
C9_Witness ==
    /\ RejectedNotConnected(out)
    /\ socket # Null /\ socks[socket].st = "connecting"
    /\ ~connected

(* C10: one '#Error' line rejects exactly one pending call and leaves the   *)
(* others pending.  Violated by the code: every pending call listens on     *)
(* the same 'error' key.                                                    *)
C10_ErrorRejectsOneCall ==
    (Ran("'data'") /\ SingleLine(Delivered) /\ trim(Delivered) = ErrorLine)
        => Cardinality(SettledNow) <= 1

----------------------------------------------------------------------------
\* the step is the delivery of the single line `line`
DeliversLine(line) ==
    /\ out'[1].ev = "'data'"
    /\ SingleLine(out'[1].txt)
    /\ trim(out'[1].txt) = line

(* C11: a '#Error' line received while a call is pending changes nothing in *)
(* the session: connected, the socket handle, every transport (none is      *)
(* ended, destroyed or closed), reconnectAttempts and reconnectTimer are    *)
(* unchanged, no reconnect timer is armed and a Ready session stays Ready.  *)
C11_ErrorLeavesSessionReady ==
    [][(DeliversLine(ErrorLine) /\ \E c \in CallIds : calls[c].st = "pending") =>
          /\ connected' = connected /\ socket' = socket
          /\ reconnectAttempts' = reconnectAttempts
          /\ reconnectTimer' = reconnectTimer
          /\ socks' = socks /\ nsock' = nsock
          /\ ~crashed'
          /\ Ready => Ready']_vars

\* '#Error' has just rejected the pending call of a logged-in session
C11_Witness ==
    /\ Ran("'data'") /\ trim(Delivered) = ErrorLine
    /\ connected /\ Ready /\ reconnectTimer = Null
    /\ \E c \in CallIds :
          calls[c].st = "rejected" /\ calls[c].val \in {RequestError, ControlError}

----------------------------------------------------------------------------
Settled(c) == calls[c].st \in {"resolved", "rejected"}

(* C12: a pending control command is resolved with no payload by an 'OK'    *)
(* line and rejected with 'Control Error' by a '#Error' line, whichever     *)
(* arrives first; either way its timer is cleared, so it never fires        *)
(* afterwards, and the settled call is never changed again.  It is resolved *)
(* by nothing but an 'OK' line.  An 'OK' line leaves every pending query    *)
(* as it was.                                                               *)
C12_ControlSettlesOnOkOrError ==
    [][\A c \in CallIds :
         /\ (calls[c].kind = "control" /\ calls[c].st = "pending") =>
               /\ DeliversLine(OkLine) =>
                     /\ calls'[c].st = "resolved" /\ calls'[c].val = <<>>
                     /\ calls'[c].timer = "cleared"
               /\ DeliversLine(ErrorLine) =>
                     /\ calls'[c].st = "rejected" /\ calls'[c].val = ControlError
                     /\ calls'[c].timer = "cleared"
               /\ calls'[c].st = "resolved" =>
                     (out'[1].ev = "'data'" /\ hasLine(out'[1].txt, OkLine))
         /\ (calls[c].kind = "control" /\ Settled(c)) =>
               /\ calls'[c] = calls[c]
               /\ out'[1] # Eff("onTimeout", c, <<>>)
         /\ (calls[c].kind = "request" /\ calls[c].st = "pending"
                 /\ DeliversLine(OkLine)) =>
               /\ calls'[c] = calls[c]
               /\ Registered(c, keyOf(calls[c].msg), "onRequest")'
               /\ Registered(c, ErrorKey, "onError")']_vars

\* 'OK' has just resolved the control command while a query is still pending
C12_Witness ==
    /\ Ran("'data'") /\ trim(Delivered) = OkLine
    /\ \E c, q \in CallIds :
          /\ calls[c].kind = "control" /\ calls[c].st = "resolved"
          /\ calls[c].val = <<>> /\ calls[c].timer = "cleared"
          /\ calls[q].kind = "request" /\ calls[q].st = "pending"
          /\ calls[q].timer = "armed"

----------------------------------------------------------------------------
\* the newline-terminated lines of a delivery, as the device sent them
rawLines(data) ==
    LET parts == split(data, "\n")
    IN IF parts[Len(parts)] = <<>> THEN SubSeq(parts, 1, Len(parts) - 1) ELSE parts

\* the same lines, one per delivery, in the same order
RECURSIVE deliverEach(_, _)
deliverEach(S, ls) ==
    IF ls = <<>> \/ S.crashed THEN S
    ELSE deliverEach(handleData(S, Head(ls) \o <<"\n">>), Tail(ls))

\* the client as the 'data' callback of the step finds it
BeforeData ==
    [Cur EXCEPT !.socks[out'[1].id].authed = @ \/ hasLine(out'[1].txt, LoginOkLine)]

\* the client as the 'data' callback of the step leaves it, with the effects
\* of handleData (those after the marker and the debugsock event)
AfterData ==
    [connected |-> connected', reconnectAttempts |-> reconnectAttempts',
     reconnectTimer |-> reconnectTimer', socket |-> socket', bcc |-> bcc',
     opts |-> opts', socks |-> socks', calls |-> calls', nsock |-> nsock',
     ncalls |-> ncalls', out |-> SubSeq(out', 3, Len(out')),
     crashed |-> crashed', terminal |-> terminal']

----------------------------------------------------------------------------
\* the transport of the last successful login, 0 when there was none
LastLogin ==
    IF \E s \in Sockets : socks[s].authed
    THEN CHOOSE s \in Sockets :
             socks[s].authed /\ \A r \in Sockets : socks[r].authed => r <= s
    ELSE 0

\* the transports closed since the last successful login
ClosedSinceLogin == { s \in Sockets : socks[s].st = "closed" /\ s >= LastLogin }

\* the reconnect attempts scheduled since the last successful login
ScheduledSinceLogin == { s \in Sockets : socks[s].timer # "none" /\ s >= LastLogin }

(* C14: the k-th consecutive unexpected close with no successful login in   *)
(* between, when it schedules a reconnect, schedules it after               *)
(* min(32, 2^k) seconds.  Violated by the code: the counter is reset by     *)
(* the 'connect' event of the socket, not by the login.                     *)
C14_BackoffDoubles ==
    \A s \in Sockets :
        (Ran("'close'") /\ out[1].id = s /\ socks[s].timer = "armed") =>
            socks[s].delay = Min(32, Pow2(Cardinality(ClosedSinceLogin))) * 1000

(* C15: with a finite maxReconnectAttempts = N, at most N reconnect         *)
(* attempts are scheduled after the last successful login.  Violated by     *)
(* the code: every 'connect' event resets the counter.                      *)
C15_RetriesBounded ==
    opts.maxReconnectAttempts # Undefined =>
        Cardinality(ScheduledSinceLogin) <= opts.maxReconnectAttempts

----------------------------------------------------------------------------
(* C16: disconnect() cancels every reconnect timer that is pending when it  *)
(* is called: none is armed afterwards, so no callback of them runs, and    *)
(* reconnectTimer is null.  Violated by the code: reconnectTimer holds only *)
(* the timer armed last, and only that one is cleared.                      *)
C16_DisconnectCancelsTimer ==
    [][out'[1].ev = "disconnect()" =>
          /\ reconnectTimer' = Null
          /\ \A t \in Sockets : socks'[t].timer # "armed"]_vars

----------------------------------------------------------------------------
(* C17: from every state, disconnect() raises no error and leaves           *)
(* connected false, socket null and reconnectTimer null, and a second       *)
(* disconnect() right after it changes nothing.                             *)
C17_DisconnectIdempotent ==
    LET once1 == disconnect(Cur)
        twice == disconnect(once1)
    IN /\ twice = once1
       /\ ~once1.connected /\ once1.socket = Null /\ once1.reconnectTimer = Null
       /\ once1.crashed = crashed /\ once1.out = <<>>

\* disconnect() has just ended a socket and cleared a reconnect timer; one
\* more disconnect() leaves this state as it is
C17_Witness ==
    /\ Ran("disconnect()")
    /\ \E s \in Sockets : socks[s].ended /\ Live(socks[s])
    /\ \E t \in Sockets : socks[t].timer = "cleared"
    /\ disconnect(Cur) = Cur

----------------------------------------------------------------------------
(* C18: when a transport that disconnect() has not ended closes, connected  *)
(* becomes false and, if reconnectAttempts >= 0 and the cap is not reached, *)
(* a reconnect timer is armed in the same step; an armed timer eventually   *)
(* fires and calls connect(), unless disconnect() clears it first (or the   *)
(* model has no socket left to create).                                     *)
C18_CloseSchedulesReconnect ==
    /\ [][\A s \in Sockets :
            (out'[1] = Eff("'close'", s, <<>>) /\ ~socks[s].ended) =>
               /\ ~connected'
               /\ (reconnectAttempts >= 0 /\ ~capReached(Cur)) =>
                     /\ socks'[s].timer = "armed"
                     /\ reconnectTimer' = s
                     /\ reconnectAttempts' = reconnectAttempts + 1]_vars
    /\ \A t \in Sockets :
          (socks[t].timer = "armed")
             ~> (\/ socks[t].timer = "cleared"
                 \/ (socks[t].timer = "fired" /\ nsock > t)
                 \/ nsock >= SessionSockets)

\* the timer armed by the unexpected close of an open transport has fired
\* and connect() has created the next socket
C18_Witness ==
    \E t \in Sockets :
        /\ Ran("reconnectTimer") /\ out[1].id = t
        /\ socks[t].st = "closed" /\ socks[t].opened /\ ~socks[t].ended
        /\ socks[t].timer = "fired"
        /\ socket = nsock /\ socks[socket].st = "connecting"

----------------------------------------------------------------------------
(* C19: when the timer of a call fires on a Ready session, that call and no *)
(* other is rejected, every other call keeps its state, timer and           *)
(* subscriptions, and the transport is destroyed; a destroyed transport     *)
(* eventually emits 'close', and that 'close' sets connected to false and,  *)
(* if reconnectAttempts >= 0 and the cap is not reached, arms a reconnect   *)
(* timer.                                                                   *)
C19_TimeoutFeedsClosePath ==
    /\ [][\A c \in CallIds :
            (out'[1] = Eff("onTimeout", c, <<>>) /\ Ready) =>
               /\ calls'[c].st = "rejected" /\ calls'[c].val = Timeout
               /\ socks'[socket].st = "destroyed"
               /\ connected' = connected /\ reconnectTimer' = reconnectTimer
               /\ \A d \in CallIds \ {c} : calls'[d] = calls[d]
               /\ bcc' = bcc]_vars
    /\ [][\A s \in Sockets :
            (out'[1] = Eff("'close'", s, <<>>) /\ socks[s].st = "destroyed") =>
               /\ ~connected'
               /\ (reconnectAttempts >= 0 /\ ~capReached(Cur)) =>
                     (socks'[s].timer = "armed" /\ reconnectTimer' = s)]_vars
    /\ \A s \in Sockets :
          (socks[s].st = "destroyed") ~> (socks[s].st = "closed")

\* the transport destroyed by the timeout of one call has closed and armed
\* the reconnect timer, while the other call is still pending
C19_Witness ==
    \E s \in Sockets, c, d \in CallIds :
        /\ Ran("'close'") /\ out[1].id = s
        /\ socks[s].authed /\ socks[s].timer = "armed" /\ ~connected
        /\ calls[c].st = "rejected" /\ calls[c].val = Timeout /\ calls[c].sock = s
        /\ calls[d].st = "pending" /\ calls[d].sock = s

----------------------------------------------------------------------------
(* C20: when the 'timeout' event of a socket fires before its 'connect'     *)
(* event, the promise of the connect() call that created the socket is      *)
(* rejected, at the latest when the socket, destroyed by the timeout        *)
(* handler, emits 'close', its last event.  Violated by the code: the       *)
(* handler destroys the socket without an error, and neither it nor the     *)
(* 'close' handler rejects.                                                 *)
C20_ConnectTimeoutRejects ==
    [][\A s \in Sockets :
         (/\ Ran("'timeout'") /\ out[1].id = s
          /\ socks[s].st = "destroyed" /\ ~socks[s].opened
          /\ out'[1] = Eff("'close'", s, <<>>))
            => socks'[s].promise = "rejected"]_vars

----------------------------------------------------------------------------
(* C21: when a transport that has opened closes before a login result was   *)
(* received on it, the promise of the connect() call that created it is     *)
(* rejected by the end of that 'close'.  Violated by the code: the 'close'  *)
(* handler never rejects, and the 'error' handler does not once connected   *)
(* is true.                                                                 *)
C21_CloseBeforeLoginRejects ==
    [][\A s \in Sockets :
         (/\ out'[1] = Eff("'close'", s, <<>>)
          /\ socks[s].opened /\ ~socks[s].authed
          /\ socks[s].promise = "pending")
            => socks'[s].promise = "rejected"]_vars

(* C22: a rejected connect() promise carries a WattBoxError.  Violated by   *)
(* the code: the 'error' handler rejects with the socket's own Error.       *)
C22_RejectionsCarryWattBoxError ==
    \A s \in Sockets :
        socks[s].promise = "rejected" => socks[s].err[1] = "WattBoxError"

----------------------------------------------------------------------------
\* the 'ready' events among the effects o
ReadyEvents(o) == { i \in 1..Len(o) : o[i].ev = "ready" }

\* the step delivers a 'Successfully Logged In!' line
DeliversLoginOk == out'[1].ev = "'data'" /\ hasLine(out'[1].txt, LoginOkLine)

(* C23: the delivery of the first 'Successfully Logged In!' line of a       *)
(* transport (not ended by the client, no disconnect() and no rejected      *)
(* login since the caller's last connect()) emits 'ready' exactly once; a   *)
(* repeated login line on the same transport emits none, and no other       *)
(* callback emits one.  Violated by the code: there is one login listener   *)
(* for all transports, consumed by the first login line of any of them.     *)
C23_ReadyOncePerLogin ==
    [][/\ (/\ DeliversLoginOk /\ terminal = "none"
            /\ ~socks[out'[1].id].authed /\ ~socks[out'[1].id].ended)
              => Cardinality(ReadyEvents(out')) = 1
       /\ (DeliversLoginOk /\ socks[out'[1].id].authed)
              => Cardinality(ReadyEvents(out')) = 0
       /\ ~DeliversLoginOk => Cardinality(ReadyEvents(out')) = 0]_vars

----------------------------------------------------------------------------
\* the listeners that the calls have registered
CallListeners == { i \in 1..Len(bcc) : bcc[i].fn \in {"onRequest", "onOk", "onError"} }

(* C24: at most one pending query is registered under each key.  Violated   *)
(* by the code: a second call with the same key adds a second listener.     *)
C24_OnePendingPerKey ==
    \A i, j \in CallListeners :
        (/\ bcc[i].fn = "onRequest" /\ bcc[j].fn = "onRequest"
         /\ bcc[i].key = bcc[j].key
         /\ calls[bcc[i].id].st = "pending" /\ calls[bcc[j].id].st = "pending")
            => i = j

(* C25: at most one transport is connecting or open.  Violated by the       *)
(* code: connect() creates a socket without closing the one it replaces.    *)
C25_OneLiveTransport ==
    Cardinality({ s \in Sockets : Live(socks[s]) }) <= 1

(* C26: a call rejected by its timeout has no subscription left on the bus. *)
(* Violated by the code: the timer callback removes no listener.            *)
C26_TimeoutUnsubscribes ==
    \A c \in CallIds :
        (calls[c].st = "rejected" /\ calls[c].val = Timeout)
            => \A i \in CallListeners : bcc[i].id # c

\* the key under which handleData publishes a reply-class line
replyKey(line) ==
    IF line \in {LoginOkLine, LoginBadLine} THEN LoginKey
    ELSE IF line = OkLine THEN OkKey
    ELSE IF line = ErrorLine THEN ErrorKey
    ELSE keyOf(line)

IsReplyLine(line) ==
    \/ line \in {LoginOkLine, LoginBadLine, OkLine, ErrorLine}
    \/ startsWith(line, <<"?">>)

(* C27: a reply-class line delivered while no listener is registered under  *)
(* its key raises no exception and leaves the subscriptions, the calls and  *)
(* the fields of the client unchanged.  Violated by the code: publishing    *)
(* '#Error' on a plain EventEmitter without an 'error' listener throws.     *)
C27_UnmatchedReplyDropped ==
    [][(/\ out'[1].ev = "'data'" /\ SingleLine(out'[1].txt)
        /\ IsReplyLine(trim(out'[1].txt))
        /\ \A i \in 1..Len(bcc) : bcc[i].key # replyKey(trim(out'[1].txt)))
          => /\ ~crashed'
             /\ bcc' = bcc /\ calls' = calls
             /\ connected' = connected /\ socket' = socket
             /\ reconnectAttempts' = reconnectAttempts
             /\ reconnectTimer' = reconnectTimer]_vars

----------------------------------------------------------------------------
\* call c was settled by a reply line or by an error line
SettledByLine(c) ==
    \/ calls[c].st = "resolved"
    \/ calls[c].st = "rejected" /\ calls[c].val \in {RequestError, ControlError}

(* C28: a call settled by a matching reply or by an error line has no       *)
(* subscription left on the bus and its timer is cleared; the timer never   *)
(* fires afterwards.                                                        *)
C28_NothingLeftAfterSettle ==
    /\ [](\A c \in CallIds :
            SettledByLine(c) =>
               /\ \A i \in CallListeners : bcc[i].id # c
               /\ calls[c].timer = "cleared")
    /\ [][\A c \in CallIds :
            SettledByLine(c) =>
               (out'[1] # Eff("onTimeout", c, <<>>) /\ calls'[c] = calls[c])]_vars

\* a reply has just resolved one query while another call is still pending:
\* only the subscriptions of the pending call are on the bus
C28_Witness ==
    \E c, d \in CallIds :
        /\ Ran("'data'")
        /\ calls[c].kind = "request" /\ calls[c].st = "resolved"
        /\ calls[c].timer = "cleared"
        /\ calls[d].st = "pending" /\ calls[d].timer = "armed"
        /\ \A i \in CallListeners : bcc[i].id = d
        /\ Cardinality(CallListeners) = 2

(* C29: a '#Error' line received while a query is pending rejects the query *)
(* with 'Request Error' in the same step, removes its reply-key             *)
(* subscription and clears its timer.                                       *)
C29_ErrorRejectsQueryAtOnce ==
    [][\A c \in CallIds :
         (/\ calls[c].kind = "request" /\ calls[c].st = "pending"
          /\ DeliversLine(ErrorLine)) =>
            /\ calls'[c].st = "rejected" /\ calls'[c].val = RequestError
            /\ calls'[c].timer = "cleared"
            /\ ~Registered(c, keyOf(calls[c].msg), "onRequest")'
            /\ ~Registered(c, ErrorKey, "onError")']_vars

\* '#Error' has just rejected the pending query '?OutletPowerStatus=1'
C29_Witness ==
    \E c \in CallIds :
        /\ Ran("'data'") /\ trim(Delivered) = ErrorLine
        /\ calls[c].msg = <<"?", "OutletPowerStatus", "=", "1">>
        /\ calls[c].st = "rejected" /\ calls[c].val = RequestError
        /\ calls[c].timer = "cleared"
        /\ \E i \in 1..Len(out) : out[i] = Eff("rejected", c, RequestError)

\* a comma-separated list of 0/1 values
IsBitList(p) ==
    /\ Len(p) % 2 = 1
    /\ \A k \in 1..Len(p) : IF k % 2 = 1 THEN IsBit(p[k]) ELSE p[k] = ","

\* the step delivers one line that begins with '~'
DeliversNotification ==
    /\ out'[1].ev = "'data'"
    /\ SingleLine(out'[1].txt)
    /\ startsWith(trim(out'[1].txt), <<"~">>)

\* the step settles no call and leaves the calls, their timers and the bus
NoCallTouched ==
    /\ calls' = calls /\ bcc' = bcc
    /\ \A i \in 1..Len(out') : out'[i].ev \notin {"resolved", "rejected"}

(* C30: a line beginning with '~' settles no call and leaves the pending    *)
(* calls, their timers and the bus unchanged (a pending '?OutletStatus'     *)
(* query included); it raises outletStatus only when the text after         *)
(* '~OutletStatus=' is a comma-separated list of 0/1 values.                *)
C30_NotificationOffTheBus ==
    [][DeliversNotification =>
         /\ NoCallTouched
         /\ (\E i \in 1..Len(out') : out'[i].ev = "outletStatus") =>
               LET line == trim(out'[1].txt)
               IN /\ startsWith(line, <<"~", "OutletStatus", "=">>)
                  /\ IsBitList(SubSeq(line, 4, Len(line)))]_vars

----------------------------------------------------------------------------
\* the five login strings of handleData
LoginStrings ==
    {BannerLine, UsernamePrompt, PasswordPrompt, LoginOkLine, LoginBadLine}

IsInboundDebug(e) == e.ev = "debugmsg" /\ e.txt # <<>> /\ e.txt[1] = "[<---] "
IsOtherLine(line) == line \notin LoginStrings
DebugOf(line) == <<"[<---] ">> \o line

\* the texts of the inbound 'debugmsg' events of the callback, in order
InboundDebugs(o) ==
    LET es == SelectSeq(o, IsInboundDebug)
    IN [i \in 1..Len(es) |-> es[i].txt]

\* one 'debugmsg' per line that is not a login string, in order
ExpectedDebugs(data) ==
    LET ls == SelectSeq(linesOf(data), IsOtherLine)
    IN [i \in 1..Len(ls) |-> DebugOf(ls[i])]

(* C31: in every delivery, each line that is not one of the five login      *)
(* strings raises 'debugmsg' exactly once, and a login string raises none,  *)
(* whatever the line is and whether or not a call is pending.               *)
C31_DebugOncePerLine ==
    [][out'[1].ev = "'data'" =>
          InboundDebugs(out') = ExpectedDebugs(out'[1].txt)]_vars

----------------------------------------------------------------------------
IsCredentialWrite(e) ==
    /\ e.ev = "write"
    /\ e.txt \in {<<opts.username, "\n">>, <<opts.password, "\n">>}

\* the credential lines written by the callback, in order
CredentialWrites(o) ==
    LET es == SelectSeq(o, IsCredentialWrite)
    IN [i \in 1..Len(es) |-> es[i].txt]

IsPrompt(line) == line \in {UsernamePrompt, PasswordPrompt}

\* the answers the prompts of a delivery ask for, in order
PromptAnswers(data) ==
    LET ps == SelectSeq(linesOf(data), IsPrompt)
    IN [i \in 1..Len(ps) |->
          IF ps[i] = UsernamePrompt THEN <<opts.username, "\n">>
                                    ELSE <<opts.password, "\n">>]

IsPrefix(a, b) == Len(a) <= Len(b) /\ SubSeq(b, 1, Len(a)) = a

(* C32: a credential line is written only by a delivery, in answer to the   *)
(* prompt that asks for it ('Username:' for the username, 'Password:' for   *)
(* the password), one write per prompt in the order of the prompts, every   *)
(* prompt being answered while the handle stays set; nothing is written     *)
(* when the socket handle is null, and the banner causes no write.          *)
C32_CredentialsAnswerPrompts ==
    [][LET W == CredentialWrites(out')
       IN /\ out'[1].ev # "'data'" => W = <<>>
          /\ out'[1].ev = "'data'" =>
                /\ socket = Null => W = <<>>
                /\ IsPrefix(W, PromptAnswers(out'[1].txt))
                /\ (socket' # Null /\ ~crashed') => W = PromptAnswers(out'[1].txt)
                /\ \A i \in 1..Len(out') :
                      IsCredentialWrite(out'[i]) => out'[i].id = socket]_vars

\* one delivery carried both prompts and each was answered once, in order
C32_Witness ==
    /\ Ran("'data'")
    /\ linesOf(Delivered) = <<UsernamePrompt, PasswordPrompt>>
    /\ CredentialWrites(out) = << <<opts.username, "\n">>, <<opts.password, "\n">> >>

----------------------------------------------------------------------------
\* the step delivers one piece of the reply line cut in two
DeliversPiece ==
    /\ out'[1].ev = "'data'"
    /\ trim(out'[1].txt) \in ReplyPieces

\* the text of line f before its first '=' is the query msg (msg has no '=')
AnswersQuery(f, msg) ==
    /\ startsWith(f, msg)
    /\ Len(f) = Len(msg) \/ f[Len(msg) + 1] = "="

(* C33 (as claimed): a piece of a reply line cut across two deliveries      *)
(* resolves no pending call.                                                *)
C33_PieceResolvesNothing ==
    [][DeliversPiece =>
         \A c \in CallIds :
            calls[c].st = "pending" => calls'[c].st = "pending"]_vars

(* C33 (amended): the pieces of a reply line cut across two deliveries are  *)
(* handled as two lines and never put together: a pending query is          *)
(* resolved by a piece exactly when the piece begins with '?' and its text  *)
(* before '=' is the key of the query, and then with that piece as the      *)
(* reply; any other piece leaves the call as it was; a call gets the whole  *)
(* line only from a delivery that holds the whole line.                     *)
C33_PiecesAreLines ==
    [][/\ DeliversPiece =>
            LET f == trim(out'[1].txt)
            IN \A c \in CallIds :
                  calls[c].st = "pending" =>
                     IF AnswersQuery(f, calls[c].msg)
                     THEN /\ calls'[c].st = "resolved"
                          /\ calls'[c].val = f /\ f # ReplyLine
                     ELSE calls'[c] = calls[c]
       /\ \A c \in CallIds :
             (calls[c].st = "pending" /\ calls'[c].st = "resolved"
                 /\ calls'[c].val = ReplyLine)
               => (out'[1].ev = "'data'" /\ hasLine(out'[1].txt, ReplyLine))]_vars

\* getModel() was pending and the first piece '?Model=WB' has just resolved
\* it with the cut text
C33_Witness ==
    \E c \in CallIds :
        /\ Ran("'data'") /\ Delivered = <<"?", "Model", "=", "WB">>
        /\ calls[c].msg = <<"?", "Model">>
        /\ calls[c].st = "resolved" /\ calls[c].val = <<"?", "Model", "=", "WB">>
        /\ \E i \in 1..Len(out) : out[i] = Eff("resolved", c, Delivered)

----------------------------------------------------------------------------
(* C34: the timer of a call destroys no transport other than the one the    *)
(* call was written to; in particular not the transport opened by a         *)
(* reconnect after the call's own transport was lost.                       *)
C34_TimeoutSparesOtherTransports ==
    [][\A c \in CallIds :
         out'[1] = Eff("onTimeout", c, <<>>) =>
            \A s \in Sockets \ {calls[c].sock} :
               socks'[s].st = socks[s].st]_vars

----------------------------------------------------------------------------
(* C35: whenever connected is true the socket handle is set and the         *)
(* transport it refers to is open.                                          *)
C35_ConnectedHasOpenSocket ==
    connected => (socket # Null /\ socks[socket].st = "open")

----------------------------------------------------------------------------
(* C36: a call that passed the connected check has its timeout timer armed  *)
(* for as long as it is pending, and is eventually resolved or rejected,    *)
(* whatever the device, the transport and the caller do meanwhile.          *)
C36_EveryCallSettles ==
    /\ [](\A c \in CallIds :
            calls[c].st = "pending" => calls[c].timer = "armed")
    /\ \A c \in CallIds :
          (calls[c].st = "pending") ~> (calls[c].st \in {"resolved", "rejected"})

\* the caller disconnected and the transport closed while the call was
\* pending; its timer has just rejected it
C36_Witness ==
    \E c \in CallIds :
        /\ Ran("onTimeout") /\ out[1].id = c
        /\ terminal = "disconnect" /\ socket = Null
        /\ calls[c].sock # Null /\ socks[calls[c].sock].st = "closed"
        /\ calls[c].st = "rejected" /\ calls[c].val = Timeout

----------------------------------------------------------------------------
(* C37: reconnectAttempts is an integer not below -1, and not above         *)
(* maxReconnectAttempts when that option is given; it becomes -1 only in    *)
(* the delivery of an 'Invalid Login' line.                                 *)
C37_AttemptsInRange ==
    /\ [](/\ reconnectAttempts \in Int /\ reconnectAttempts >= 0 - 1
          /\ opts.maxReconnectAttempts # Undefined =>
                reconnectAttempts <= opts.maxReconnectAttempts)
    /\ [][(reconnectAttempts' = 0 - 1 /\ reconnectAttempts # 0 - 1) =>
            /\ out'[1].ev = "'data'"
            /\ hasLine(out'[1].txt, LoginBadLine)
            /\ terminal' = "auth"]_vars

\* with maxReconnectAttempts = 1 a transport has just closed with the
\* counter at the cap: nothing was scheduled and the counter stayed at 1
C37_Witness ==
    /\ opts.maxReconnectAttempts = 1
    /\ Ran("'close'") /\ reconnectAttempts = 1
    /\ socks[out[1].id].timer = "none"
    /\ \E s \in Sockets : socks[s].timer = "fired"

----------------------------------------------------------------------------
(* C38: at most one reconnect timer is armed, and an armed reconnect timer  *)
(* is the one reconnectTimer refers to.                                     *)
C38_OneArmedReconnectTimer ==
    /\ Cardinality({t \in Sockets : socks[t].timer = "armed"}) <= 1
    /\ \A t \in Sockets : socks[t].timer = "armed" => reconnectTimer = t

----------------------------------------------------------------------------
(* C39: the transport opened for the caller's connect() does not stay open  *)
(* for ever with the promise of that call pending, even if the device       *)
(* sends nothing: the idle timeout of the socket leads to the promise being *)
(* settled (or, at the least, to the transport being given up).             *)
C39_SilentLoginSettles ==
    (socks[1].st = "open" /\ socks[1].promise = "pending")
        ~> (socks[1].promise # "pending" \/ socks[1].st # "open")

----------------------------------------------------------------------------
\* the step delivers, on transport s, one reply line that a query written
\* to s and still pending is waiting for
DeliversReplyOn(s) ==
    /\ out'[1].ev = "'data'" /\ out'[1].id = s
    /\ SingleLine(out'[1].txt)
    /\ startsWith(trim(out'[1].txt), <<"?">>)
    /\ \E d \in CallIds :
          /\ calls[d].st = "pending" /\ calls[d].sock = s
          /\ calls[d].kind = "request"
          /\ AnswersQuery(trim(out'[1].txt), calls[d].msg)

(* C40: a reply received on a transport settles only calls that were        *)
(* written to that transport; a call left pending by the close of its own   *)
(* transport is not settled by a line received on a later one.              *)
C40_ReplySettlesOwnTransportOnly ==
    [][\A s \in Sockets :
         DeliversReplyOn(s) =>
            \A c \in CallIds :
               (calls[c].st = "pending" /\ calls'[c].st # "pending")
                  => calls[c].sock = s]_vars

====
